---- MODULE Spec2Model ----
(***************************************************************************)
(* Model of src/main.py: the product catalog handlers (list_products,      *)
(* get_product), the inquiry intake (submit_inquiry, registered under      *)
(* POST /contact and POST /submit-inquiry), the banner (read_root) and the *)
(* diagnostics (test_database), over a document store with the two         *)
(* collections "product" and "inquiry".                                    *)
(*                                                                         *)
(* FastAPI runs a plain "def" handler in a worker thread, so two requests  *)
(* run at the same time; every storage call is one step of the request     *)
(* that makes it.  update_one(..., upsert=True) is the exception: the      *)
(* store evaluates the filter and, when nothing matched, inserts, and no   *)
(* unique index on "slug" serialises two upserts of the same slug, so the  *)
(* match and the insert are two steps.                                     *)
(*                                                                         *)
(* A storage call of a faulty store may raise; a healthy store never does. *)
(* An Optional value is a sequence: <<>> is None, <<x>> is x.              *)
(***************************************************************************)
EXTENDS Naturals, Sequences, FiniteSets, TLC

VARIABLES
    dbConfigured,   \* database.db is not None (fixed at import time)
    product,        \* the "product" collection, in insertion order
    inquiry,        \* the "inquiry" collection, in insertion order
    now,            \* what datetime.utcnow() returns
    req,            \* per worker: the request it is handling
    storeFaulty,    \* environment: whether a storage call may raise
    product0        \* history: the "product" collection at start-up

vars == <<dbConfigured, product, inquiry, now, req, storeFaulty, product0>>

\* Bounds of the model.
MaxInquiries == 2
MaxClock == 1

\* The two worker threads that handle requests.
Slots == {1, 2}

None == <<>>
Some(x) == <<x>>

-----------------------------------------------------------------------------
\* Models (src/main.py:25-42)

ProductFields ==
    {"title", "slug", "category", "brand", "description", "specs", "images", "featured"}

ProductOptional == {"brand", "description", "specs", "images"}

\* Product(**{k: v for k, v in item.items() if k in Product.model_fields}):
\* only the fields of the shape are kept, a missing Optional field is None,
\* a missing "featured" is False.
Product(item) ==
    [k \in ProductFields |->
        IF k \in ProductOptional
        THEN (IF k \in DOMAIN item THEN Some(item[k]) ELSE None)
        ELSE IF k = "featured"
        THEN (IF k \in DOMAIN item THEN item[k] ELSE FALSE)
        ELSE item[k]]

\* Inquiry.model_dump(): the six fields, the Optional ones None when absent.
InquiryFields == {"name", "email", "company", "phone", "message", "product_slug"}

Payloads ==
    { [name |-> "Ana", email |-> "ana@example.com", company |-> None,
       phone |-> None, message |-> "Please send a quote",
       product_slug |-> None],
      [name |-> "Ben", email |-> "not-an-email", company |-> Some("Acme"),
       phone |-> Some("555-0100"), message |-> "Need 3 units",
       product_slug |-> Some("no-such-product")] }

-----------------------------------------------------------------------------
\* Sample data (src/main.py:171-226)

_sample_products ==
    << [title |-> "Industrial Circuit Breaker 3P 100A",
        slug |-> "industrial-circuit-breaker-3p-100a",
        category |-> "Power Distribution",
        brand |-> "ProGuard",
        description |-> "Rugged molded-case circuit breaker for industrial panels with high interrupt capacity.",
        specs |-> <<"Rated current: 100A", "Poles: 3", "Voltage: 415VAC",
                    "Breaking capacity: 36kA", "Compliance: IEC 60947-2">>,
        images |-> <<"https://images.unsplash.com/photo-1581094794329-c8112a89af12?q=80&w=1200&auto=format&fit=crop">>,
        featured |-> TRUE],
       [title |-> "Metallic Cable Tray Ladder Type",
        slug |-> "metallic-cable-tray-ladder",
        category |-> "Cable Management",
        brand |-> "SteelFlex",
        description |-> "Heavy-duty galvanized steel ladder cable tray for factories and plants.",
        specs |-> <<"Material: GI steel", "Width: 300mm", "Height: 100mm",
                    "Finish: Hot-dip galvanized", "Accessories: Bends, tees, reducers">>,
        images |-> <<"https://images.unsplash.com/photo-1581090464777-f3220bbe1b8b?q=80&w=1200&auto=format&fit=crop">>,
        featured |-> TRUE],
       [title |-> "Programmable Logic Controller (PLC)",
        slug |-> "programmable-logic-controller-plc",
        category |-> "Automation",
        brand |-> "AutoCore",
        description |-> "Compact PLC for machine automation with Ethernet and Modbus.",
        specs |-> <<"I/O: 24 DI, 16 DO, 4 AI", "Protocols: Modbus TCP/RTU",
                    "Programming: Ladder/Structured Text", "Comms: 2x RS485, 1x Ethernet">>,
        images |-> <<"https://images.unsplash.com/photo-1581092578034-95c2a5b9c9d7?q=80&w=1200&auto=format&fit=crop">>,
        featured |-> FALSE] >>

-----------------------------------------------------------------------------
\* The document store

\* The _id the store gives the next document inserted into a collection
\* (documents are never deleted, so the position is fresh).
NewId(name, coll) == [coll |-> name, n |-> Len(coll) + 1]

\* A document: the fields written plus "_id".
WithId(fields, id) ==
    [k \in DOMAIN fields \cup {"_id"} |-> IF k = "_id" THEN id ELSE fields[k]]

\* insert_one
Insert(name, coll, fields) == Append(coll, WithId(fields, NewId(name, coll)))

\* An exact-match filter: every key of the filter is a field of the document
\* with that value.
Matches(doc, filter_obj) ==
    \A k \in DOMAIN filter_obj : k \in DOMAIN doc /\ doc[k] = filter_obj[k]

\* database.get_documents(collection, filter): the matching documents, in
\* insertion order.
get_documents(coll, filter_obj) ==
    SelectSeq(coll, LAMBDA d : Matches(d, filter_obj))

\* Collection.find_one(filter): the first matching document, or None.
find_one(coll, filter_obj) ==
    LET found == get_documents(coll, filter_obj)
    IN  IF found = <<>> THEN None ELSE Some(Head(found))

\* database.create_document(collection, data): one new document.
create_document(name, coll, data) == Insert(name, coll, data)

\* Database.list_collection_names(): a collection exists once it holds a
\* document.
list_collection_names ==
    (IF product # <<>> THEN {"product"} ELSE {})
        \cup (IF inquiry # <<>> THEN {"inquiry"} ELSE {})

\* serialize (src/main.py:57-63): "_id" becomes "id", a string.
serialize(doc) ==
    IF "_id" \in DOMAIN doc
    THEN [k \in (DOMAIN doc \ {"_id"}) \cup {"id"} |->
            IF k = "id" THEN ToString(doc["_id"]) ELSE doc[k]]
    ELSE doc

\* Product collections the service may find at start-up: nothing, or a
\* catalog curated by hand: one product of its own (with a field the Product
\* shape does not have, and no brand) and an edited copy of a sample product.
CuratedProducts ==
    << WithId([title |-> "Hydraulic Press 20T", slug |-> "hydraulic-press-20t",
               category |-> "Hydraulics", featured |-> TRUE,
               legacy_sku |-> "HP-20"],
              [coll |-> "product", n |-> 1]),
       WithId([title |-> "Cable Tray (edited)",
               slug |-> "metallic-cable-tray-ladder",
               category |-> "Cable Management", brand |-> "SteelFlex",
               featured |-> FALSE],
              [coll |-> "product", n |-> 2]) >>

InitialProducts == {<<>>, CuratedProducts}

-----------------------------------------------------------------------------
\* Requests

\* A worker's request: where the handler stands (pc), the handler (op), the
\* path it was routed from, its arguments and locals, and four records of
\* what it did: the storage calls it made, those that raised, the document it
\* handed to create_document, and whether it inserted a document.
Idle ==
    [pc |-> "idle", op |-> "none", path |-> "", args |-> <<>>,
     filter_obj |-> <<>>, i |-> 0, calls |-> <<>>, raised |-> {},
     sent |-> None, wrote |-> FALSE, resp |-> None]

\* A handler that returned: FastAPI answers 200 with the returned value.
Ok(body) == [status_code |-> 200, body |-> body]

\* raise HTTPException(status_code=404, detail="Product not found")
NotFound == [status_code |-> 404, body |-> [detail |-> "Product not found"]]

\* An exception that leaves the handler: FastAPI answers 500.
ServerError == [status_code |-> 500, body |-> "Internal Server Error"]

\* The query parameters, slugs, and paths the model sends.
Queries ==
    { [category |-> None, featured |-> None],
      [category |-> None, featured |-> Some(TRUE)],
      [category |-> None, featured |-> Some(FALSE)],
      [category |-> Some(""), featured |-> Some(TRUE)],
      [category |-> Some("Automation"), featured |-> None],
      [category |-> Some("Automation"), featured |-> Some(TRUE)] }
Slugs == {"metallic-cable-tray-ladder", "Metallic-Cable-Tray-Ladder",
          "hydraulic-press-20t", "does-not-exist"}
InquiryPaths == {"/contact", "/submit-inquiry"}

\* Whether a storage call raises: any call may when the store is faulty.
Faults == IF storeFaulty THEN BOOLEAN ELSE {FALSE}

\* Variant: "if featured:" in place of "if featured is not None:".
FilterObjTruthy(category, featured) ==
    [k \in (IF category # None /\ category # Some("") THEN {"category"} ELSE {})
            \cup (IF featured = Some(TRUE) THEN {"featured"} ELSE {}) |->
        IF k = "category" THEN category[1] ELSE featured[1]]

\* list_products, lines 111-115: the filter built from the parameters.
\* "if category:" leaves out None and the empty string.
FilterObj(category, featured) ==
    [k \in (IF category # None /\ category # Some("") THEN {"category"} ELSE {})
            \cup (IF featured # None THEN {"featured"} ELSE {}) |->
        IF k = "category" THEN category[1] ELSE featured[1]]

\* [serialize(d) for d in docs]
SerializeAll(docs) == [n \in 1..Len(docs) |-> serialize(docs[n])]

\* list_products, line 128: every item coerced to the Product shape.
CoerceAll(items) == [n \in 1..Len(items) |-> Product(items[n])]

\* get_documents("product", filter_obj) followed by the two comprehensions.
QueryProducts(coll, filter_obj) ==
    CoerceAll(SerializeAll(get_documents(coll, filter_obj)))

\* Variant: the fallback branch applying the filters.
FallbackItemsFiltered(category, featured) ==
    get_documents(_sample_products, FilterObj(category, featured))

\* list_products, lines 106-109: without a database the items are the
\* samples, whatever the parameters.
FallbackItems(category, featured) == _sample_products

\* Variant: insert_one in place of the upsert.
UpsertMatchedNever(coll, p) == FALSE

\* update_one({"slug": p["slug"]}, ..., upsert=True): whether the filter
\* matches a document of the collection.
UpsertMatched(coll, p) == find_one(coll, [slug |-> p.slug]) # None

\* Variant: "$set" in place of "$setOnInsert".
UpsertOnMatchSet(coll, p) ==
    [n \in 1..Len(coll) |->
        IF n = CHOOSE m \in 1..Len(coll) :
                /\ coll[m].slug = p.slug
                /\ \A j \in 1..(m - 1) : coll[j].slug # p.slug
        THEN [k \in DOMAIN coll[n] \cup DOMAIN p |->
                IF k \in DOMAIN p THEN p[k] ELSE coll[n][k]]
        ELSE coll[n]]

\* ... {"$setOnInsert": p}: a matched document is left as it is.
UpsertOnMatch(coll, p) == coll

\* ... and with no match the store inserts the filter's fields and p.
UpsertOnInsert(coll, p) == Insert("product", coll, p)

\* The seed loop of list_products (line 120) moves to the next sample, or to
\* the second query after the last.
SeedAdvance(q) ==
    IF q.i < Len(_sample_products)
    THEN [q EXCEPT !.pc = "seed", !.i = q.i + 1]
    ELSE [q EXCEPT !.pc = "requery", !.i = 0]

Finish(q, resp) == [q EXCEPT !.pc = "done", !.resp = Some(resp)]

\* Variant: the seed loop without its try/except.
SeedOnRaisePropagate(q) == Finish(q, ServerError)

\* list_products, lines 123-124: "except Exception: pass".
SeedOnRaise(q) == SeedAdvance(q)

-----------------------------------------------------------------------------
\* State after construction

Init ==
    /\ dbConfigured \in BOOLEAN
    /\ storeFaulty \in (IF dbConfigured THEN BOOLEAN ELSE {FALSE})
    /\ product \in (IF dbConfigured THEN InitialProducts ELSE {<<>>})
    /\ inquiry = <<>>
    /\ now = 0
    /\ req = [r \in Slots |-> Idle]
    /\ product0 = product

-----------------------------------------------------------------------------
\* Handlers

\* GET /
read_root(r) ==
    /\ req[r].pc = "idle"
    /\ req' = [req EXCEPT ![r] =
            Finish([Idle EXCEPT !.op = "read_root", !.path = "/"],
                   Ok([message |-> "Industrial API running", version |-> "1.0"]))]
    /\ UNCHANGED <<dbConfigured, product, inquiry, now, storeFaulty, product0>>

\* GET /test.  The database_url and database_name entries report the
\* environment and the handle's name and are left out.
test_database(r) ==
    /\ req[r].pc = "idle"
    /\ LET q == [Idle EXCEPT !.op = "test_database", !.path = "/test"]
       IN  IF ~dbConfigured
           THEN req' = [req EXCEPT ![r] =
                    Finish(q, Ok([backend |-> "Running",
                                  database |-> "Not Available",
                                  connection_status |-> "Not Connected",
                                  collections |-> {}]))]
           ELSE \E fault \in Faults :
                req' = [req EXCEPT ![r] =
                    IF fault
                    THEN Finish([q EXCEPT !.calls = <<"list_collection_names">>,
                                          !.raised = {"list_collection_names"}],
                                Ok([backend |-> "Running",
                                    database |-> "Connected but Error",
                                    connection_status |-> "Connected",
                                    collections |-> {}]))
                    ELSE Finish([q EXCEPT !.calls = <<"list_collection_names">>],
                                Ok([backend |-> "Running",
                                    database |-> "Connected & Working",
                                    connection_status |-> "Connected",
                                    collections |-> list_collection_names]))]
    /\ UNCHANGED <<dbConfigured, product, inquiry, now, storeFaulty, product0>>

\* GET /products, lines 105-118: the fallback branch, or the first query.
list_products(r, category, featured) ==
    /\ req[r].pc = "idle"
    /\ LET q == [Idle EXCEPT !.op = "list_products", !.path = "/products",
                             !.args = [category |-> category, featured |-> featured]]
       IN  IF ~dbConfigured
           THEN req' = [req EXCEPT ![r] =
                    Finish(q, Ok(CoerceAll(FallbackItems(category, featured))))]
           ELSE \E fault \in Faults :
                LET filter_obj == FilterObj(category, featured)
                    items == QueryProducts(product, filter_obj)
                    q1 == [q EXCEPT !.filter_obj = filter_obj,
                                    !.calls = <<"get_documents">>]
                IN  req' = [req EXCEPT ![r] =
                        IF fault
                        THEN Finish([q1 EXCEPT !.raised = {"get_documents"}], ServerError)
                        ELSE IF items # <<>>
                        THEN Finish(q1, Ok(items))
                        ELSE [q1 EXCEPT !.pc = "seed", !.i = 1]]
    /\ UNCHANGED <<dbConfigured, product, inquiry, now, storeFaulty, product0>>

\* list_products, lines 120-124: update_one evaluates its filter, or raises
\* (the exception is caught and the loop goes on).
SeedMatch(r) ==
    /\ req[r].pc = "seed"
    /\ LET q == [req[r] EXCEPT !.calls = Append(@, "update_one")]
           p == _sample_products[q.i]
       IN  \E fault \in Faults :
            IF fault
            THEN /\ req' = [req EXCEPT ![r] =
                        SeedOnRaise([q EXCEPT !.raised = @ \cup {"update_one"}])]
                 /\ product' = product
            ELSE IF UpsertMatched(product, p)
            THEN /\ req' = [req EXCEPT ![r] = SeedAdvance(q)]
                 /\ product' = UpsertOnMatch(product, p)
            ELSE /\ req' = [req EXCEPT ![r] = [q EXCEPT !.pc = "seed_write"]]
                 /\ product' = product
    /\ UNCHANGED <<dbConfigured, inquiry, now, storeFaulty, product0>>

\* ... and, having matched nothing, inserts the sample.
SeedInsert(r) ==
    /\ req[r].pc = "seed_write"
    /\ product' = UpsertOnInsert(product, _sample_products[req[r].i])
    /\ req' = [req EXCEPT ![r] = SeedAdvance([req[r] EXCEPT !.wrote = TRUE])]
    /\ UNCHANGED <<dbConfigured, inquiry, now, storeFaulty, product0>>

\* list_products, lines 125-128: the second query.
Requery(r) ==
    /\ req[r].pc = "requery"
    /\ LET q == [req[r] EXCEPT !.calls = Append(@, "get_documents")]
       IN  \E fault \in Faults :
            req' = [req EXCEPT ![r] =
                IF fault
                THEN Finish([q EXCEPT !.raised = @ \cup {"get_documents"}], ServerError)
                ELSE Finish(q, Ok(QueryProducts(product, q.filter_obj)))]
    /\ UNCHANGED <<dbConfigured, product, inquiry, now, storeFaulty, product0>>

\* get_product, lines 133-137: the first sample with this slug.
SampleBySlug(slug) ==
    LET found == SelectSeq(_sample_products, LAMBDA p : p.slug = slug)
    IN  IF found = <<>> THEN NotFound ELSE Ok(Product(Head(found)))

\* Variant: falling back to the samples when the collection has no match.
StoredBySlugOrSample(coll, slug) ==
    LET doc == find_one(coll, [slug |-> slug])
    IN  IF doc = None THEN SampleBySlug(slug) ELSE Ok(Product(serialize(doc[1])))

\* get_product, lines 138-142.
StoredBySlug(coll, slug) ==
    LET doc == find_one(coll, [slug |-> slug])
    IN  IF doc = None THEN NotFound ELSE Ok(Product(serialize(doc[1])))

\* GET /products/{slug}
get_product(r, slug) ==
    /\ req[r].pc = "idle"
    /\ LET q == [Idle EXCEPT !.op = "get_product", !.path = "/products/{slug}",
                             !.args = [slug |-> slug]]
       IN  IF ~dbConfigured
           THEN req' = [req EXCEPT ![r] = Finish(q, SampleBySlug(slug))]
           ELSE \E fault \in Faults :
                req' = [req EXCEPT ![r] =
                    IF fault
                    THEN Finish([q EXCEPT !.calls = <<"find_one">>,
                                          !.raised = {"find_one"}], ServerError)
                    ELSE Finish([q EXCEPT !.calls = <<"find_one">>],
                                StoredBySlug(product, slug))]
    /\ UNCHANGED <<dbConfigured, product, inquiry, now, storeFaulty, product0>>

\* payload["created_at"] = datetime.utcnow()
Stamped(payload, t) ==
    [k \in DOMAIN payload \cup {"created_at"} |->
        IF k = "created_at" THEN t ELSE payload[k]]

\* Variant: submit_inquiry without its try/except.
SubmitOnRaisePropagate(q) == Finish(q, ServerError)

\* submit_inquiry, lines 161-163: "except Exception: pass".
SubmitOnRaise(q) == q

\* submit_inquiry, lines 156 and 164 alone: nothing is stored.
SubmitUnstored(r, q) ==
    /\ req' = [req EXCEPT ![r] = q]
    /\ inquiry' = inquiry

\* Variant: an inquiry already stored with the same content is not stored
\* again.
SubmitStoredOnce(r, q, payload) ==
    \E fault \in Faults :
        LET data == Stamped(payload, now)
            q1 == [q EXCEPT !.calls = <<"create_document">>, !.sent = Some(data)]
            known == \E n \in 1..Len(inquiry) :
                        \A k \in DOMAIN payload : inquiry[n][k] = payload[k]
        IN  IF fault
            THEN /\ req' = [req EXCEPT ![r] =
                        SubmitOnRaise([q1 EXCEPT !.raised = {"create_document"}])]
                 /\ inquiry' = inquiry
            ELSE /\ req' = [req EXCEPT ![r] = [q1 EXCEPT !.wrote = ~known]]
                 /\ inquiry' = IF known THEN inquiry
                                ELSE create_document("inquiry", inquiry, data)

\* submit_inquiry, lines 158-163: the stamped payload goes to
\* create_document, whose exception is swallowed.
SubmitStored(r, q, payload) ==
    \E fault \in Faults :
        LET data == Stamped(payload, now)
            q1 == [q EXCEPT !.calls = <<"create_document">>, !.sent = Some(data)]
        IN  IF fault
            THEN /\ req' = [req EXCEPT ![r] =
                        SubmitOnRaise([q1 EXCEPT !.raised = {"create_document"}])]
                 /\ inquiry' = inquiry
            ELSE /\ req' = [req EXCEPT ![r] = [q1 EXCEPT !.wrote = TRUE]]
                 /\ inquiry' = create_document("inquiry", inquiry, data)

\* Variant: /contact answering without storing.
SubmitContactUnstored(r, path, payload) ==
    /\ req[r].pc = "idle"
    /\ dbConfigured => Len(inquiry) < MaxInquiries
    /\ LET q == [Idle EXCEPT !.op = "submit_inquiry", !.path = path,
                             !.args = [inquiry |-> payload], !.pc = "respond"]
       IN  IF ~dbConfigured \/ path = "/contact"
           THEN SubmitUnstored(r, q)
           ELSE SubmitStored(r, q, payload)
    /\ UNCHANGED <<dbConfigured, product, now, storeFaulty, product0>>

\* POST /contact and POST /submit-inquiry, lines 153-163: both paths are
\* routed to the one handler.
submit_inquiry(r, path, payload) ==
    /\ req[r].pc = "idle"
    /\ dbConfigured => Len(inquiry) < MaxInquiries
    /\ LET q == [Idle EXCEPT !.op = "submit_inquiry", !.path = path,
                             !.args = [inquiry |-> payload], !.pc = "respond"]
       IN  IF ~dbConfigured
           THEN SubmitUnstored(r, q)
           ELSE SubmitStored(r, q, payload)
    /\ UNCHANGED <<dbConfigured, product, now, storeFaulty, product0>>

\* submit_inquiry, line 164.
SubmitRespond(r) ==
    /\ req[r].pc = "respond"
    /\ req' = [req EXCEPT ![r] =
            Finish(req[r], Ok([status |-> "received", received_at |-> now]))]
    /\ UNCHANGED <<dbConfigured, product, inquiry, now, storeFaulty, product0>>

\* The response is sent and the worker is free again.
Return(r) ==
    /\ req[r].pc = "done"
    /\ req' = [req EXCEPT ![r] = Idle]
    /\ UNCHANGED <<dbConfigured, product, inquiry, now, storeFaulty, product0>>

\* Time passes.
Tick ==
    /\ now < MaxClock
    /\ now' = now + 1
    /\ UNCHANGED <<dbConfigured, product, inquiry, req, storeFaulty, product0>>

\* One step of worker r on the catalog: the handlers that read or write the
\* "product" collection.
CatalogStep(r) ==
    \/ \E query \in Queries : list_products(r, query.category, query.featured)
    \/ SeedMatch(r)
    \/ SeedInsert(r)
    \/ Requery(r)
    \/ \E slug \in Slugs : get_product(r, slug)
    \/ Return(r)

\* One step of worker r on the rest: the handler that writes the "inquiry"
\* collection, the banner and the diagnostics.
IntakeStep(r) ==
    \/ read_root(r)
    \/ test_database(r)
    \/ \E path \in InquiryPaths, payload \in Payloads :
            submit_inquiry(r, path, payload)
    \/ SubmitRespond(r)
    \/ Return(r)

\* The catalog handlers never touch "inquiry" and the others never write
\* "product": each group is run with both workers at once on its own, and all
\* the handlers together with requests arriving one after the other.

\* Catalog requests handled by both workers at once.
Next == \E r \in Slots : CatalogStep(r)

Spec == Init /\ [][Next]_vars

\* Intake requests handled by both workers at once.
IntakeNext == (\E r \in Slots : IntakeStep(r)) \/ Tick

IntakeSpec == Init /\ [][IntakeNext]_vars

\* Every kind of request, one after the other: a single worker.
SeqNext == CatalogStep(1) \/ IntakeStep(1) \/ Tick

SeqSpec == Init /\ [][SeqNext]_vars

-----------------------------------------------------------------------------
\* Properties

\* The positions of the documents of a collection with this slug.
WithSlug(coll, slug) == {n \in 1..Len(coll) : coll[n].slug = slug}

NoSharedSlug(coll) ==
    \A j, k \in 1..Len(coll) : j # k => coll[j].slug # coll[k].slug

OneOfEachSample(coll) ==
    /\ Len(coll) = Len(_sample_products)
    /\ \A n \in 1..Len(_sample_products) :
            Cardinality(WithSlug(coll, _sample_products[n].slug)) = 1

IsDone(r, op) == req[r].pc = "done" /\ req[r].op = op

\* C1: with a database whose calls do not raise and a "product" collection
\* that was empty at start-up, once a call of list_products has returned
\* (the first, the second, any later one, whatever its parameters) the
\* collection holds exactly one document per sample slug and no two documents
\* share a slug; a second call adds nothing.  Requests one after the other.
C1_SeedingIdempotent ==
    \A r \in Slots :
        (dbConfigured /\ ~storeFaulty /\ product0 = <<>> /\ IsDone(r, "list_products"))
            => OneOfEachSample(product) /\ NoSharedSlug(product)

\* A later call ran the seed loop again over the seeded collection (its
\* filter matched nothing) and inserted nothing.
C1_Witness ==
    \E r \in Slots :
        /\ dbConfigured /\ ~storeFaulty /\ product0 = <<>>
        /\ IsDone(r, "list_products")
        /\ Len(req[r].calls) = 5
        /\ ~req[r].wrote
        /\ OneOfEachSample(product)

\* C2: two list operations running at once against a collection that was
\* empty at start-up never leave two documents with the same slug.
C2_NoDuplicateSlug ==
    (dbConfigured /\ product0 = <<>>) => NoSharedSlug(product)

\* C3: without a database list_products answers 200 with the three samples,
\* in order and unfiltered, whatever the parameters, and makes no storage
\* call.
C3_FallbackList ==
    \A r \in Slots :
        (~dbConfigured /\ IsDone(r, "list_products")) =>
            /\ req[r].resp # None
            /\ req[r].resp[1].status_code = 200
            /\ Len(req[r].resp[1].body) = 3
            /\ \A n \in 1..3 :
                /\ req[r].resp[1].body[n].slug = _sample_products[n].slug
                /\ req[r].resp[1].body[n].title = _sample_products[n].title
                /\ req[r].resp[1].body[n].category = _sample_products[n].category
                /\ req[r].resp[1].body[n].featured = _sample_products[n].featured
            /\ req[r].calls = <<>>
            /\ product = <<>>

\* Parameters that would filter every sample out still return all three.
C3_Witness ==
    \E r \in Slots :
        /\ ~dbConfigured
        /\ IsDone(r, "list_products")
        /\ req[r].args = [category |-> Some("Automation"), featured |-> Some(TRUE)]
        /\ Len(req[r].resp[1].body) = 3

\* C4: submit_inquiry always answers 200 with status "received": without a
\* database, when create_document succeeds and when it raises; a submit that
\* has not answered yet has not failed.
C4_AlwaysReceived ==
    \A r \in Slots :
        /\ IsDone(r, "submit_inquiry") =>
            /\ req[r].resp # None
            /\ req[r].resp[1].status_code = 200
            /\ req[r].resp[1].body.status = "received"
        /\ (req[r].op = "submit_inquiry" /\ req[r].pc # "done") =>
            /\ req[r].pc = "respond"
            /\ req[r].resp = None

\* One submit whose create_document raised and one whose create_document
\* succeeded have both been answered "received".
C4_Witness ==
    \E r1, r2 \in Slots :
        /\ IsDone(r1, "submit_inquiry") /\ IsDone(r2, "submit_inquiry")
        /\ req[r1].raised = {"create_document"}
        /\ req[r2].wrote
        /\ req[r1].resp[1].body.status = "received"
        /\ req[r2].resp[1].body.status = "received"

\* The first document of a source with this slug, compared as written.
FirstWithSlug(source, slug) ==
    source[CHOOSE n \in WithSlug(source, slug) :
                \A m \in WithSlug(source, slug) : n <= m]

\* C5: a step of get_product writes nothing, and unless find_one raised it
\* answers 200 with the first record of the source in use (the collection with
\* a database, the samples without) whose slug is exactly the requested one,
\* and 404 "Product not found" when the source holds none.
C5_GetBySlug ==
    [][\A r \in Slots :
        (req[r].pc = "idle" /\ req'[r].op = "get_product") =>
            LET slug == req'[r].args.slug
                source == IF dbConfigured THEN product ELSE _sample_products
                resp == req'[r].resp[1]
            IN  /\ product' = product
                /\ inquiry' = inquiry
                /\ req'[r].pc = "done"
                /\ req'[r].raised = {} =>
                    IF WithSlug(source, slug) = {}
                    THEN /\ resp.status_code = 404
                         /\ resp.body = [detail |-> "Product not found"]
                    ELSE /\ resp.status_code = 200
                         /\ resp.body.slug = slug
                         /\ resp.body.title = FirstWithSlug(source, slug).title
                         /\ resp.body.category = FirstWithSlug(source, slug).category
                         /\ resp.body.featured = FirstWithSlug(source, slug).featured]_vars

\* With the curated collection one request got the stored (edited) record,
\* not the sample of the same slug, and one with the same slug in another
\* case got 404.
C5_Witness ==
    \E r1, r2 \in Slots :
        /\ dbConfigured
        /\ IsDone(r1, "get_product") /\ IsDone(r2, "get_product")
        /\ req[r1].args.slug = "metallic-cable-tray-ladder"
        /\ req[r1].resp[1].status_code = 200
        /\ req[r1].resp[1].body.title = "Cable Tray (edited)"
        /\ req[r2].args.slug = "Metallic-Cable-Tray-Ladder"
        /\ req[r2].raised = {}
        /\ req[r2].resp[1].status_code = 404

\* Whether a stored document passes the filters a request supplied: an
\* absent or empty category and an absent featured flag filter nothing.
Wanted(doc, args) ==
    /\ (args.category # None /\ args.category[1] # "") =>
            doc.category = args.category[1]
    /\ args.featured # None => doc.featured = args.featured[1]

\* C6: with a database, the step on which list_products gets the result of
\* its final query (the first when that matched something, else the one after
\* seeding) answers 200 with exactly the stored documents that pass every
\* supplied filter at that moment: none missing, none extra, none twice, in
\* insertion order; with featured=true those are the documents whose
\* featured is true.
C6_ListMatchesStore ==
    [][\A r \in Slots :
        ( /\ dbConfigured
          /\ req[r].pc \in {"idle", "requery"}
          /\ req'[r].pc = "done"
          /\ req'[r].op = "list_products"
          /\ "get_documents" \notin req'[r].raised ) =>
            LET wanted == SelectSeq(product, LAMBDA d : Wanted(d, req'[r].args))
                resp == req'[r].resp[1]
            IN  /\ resp.status_code = 200
                /\ Len(resp.body) = Len(wanted)
                /\ \A n \in 1..Len(wanted) :
                    /\ resp.body[n].slug = wanted[n].slug
                    /\ resp.body[n].title = wanted[n].title
                    /\ resp.body[n].category = wanted[n].category
                    /\ resp.body[n].featured = wanted[n].featured
                    /\ DOMAIN resp.body[n] = ProductFields]_vars

\* Over the curated collection, grown by a seeding, featured=true returned two
\* documents, the curated one first, while the collection also holds
\* documents that are not featured.
C6_Witness ==
    \E r \in Slots :
        /\ dbConfigured /\ product0 = CuratedProducts
        /\ IsDone(r, "list_products")
        /\ req[r].args = [category |-> None, featured |-> Some(TRUE)]
        /\ req[r].resp[1].status_code = 200
        /\ Len(req[r].resp[1].body) = 2
        /\ req[r].resp[1].body[1].slug = "hydraulic-press-20t"
        /\ req[r].resp[1].body[2].slug = "industrial-circuit-breaker-3p-100a"
        /\ \E n \in 1..Len(product) : ~product[n].featured

\* C7: the step on which a submit's create_document succeeds adds exactly one
\* record at the end of "inquiry", whatever the collection already holds: the
\* payload's six fields, the created_at the service read from the clock, and
\* an _id no other record has.
C7_OneRecordPerSubmit ==
    [][\A r \in Slots :
        ( /\ dbConfigured
          /\ req[r].pc = "idle"
          /\ req'[r].op = "submit_inquiry"
          /\ req'[r].raised = {} ) =>
            /\ Len(inquiry') = Len(inquiry) + 1
            /\ SubSeq(inquiry', 1, Len(inquiry)) = inquiry
            /\ LET d == inquiry'[Len(inquiry')]
               IN  /\ DOMAIN d = InquiryFields \cup {"created_at", "_id"}
                   /\ \A k \in InquiryFields : d[k] = req'[r].args.inquiry[k]
                   /\ d.created_at = now
                   /\ \A n \in 1..Len(inquiry) : inquiry[n]["_id"] # d["_id"]]_vars

\* Two records with the same six fields, each with its own _id and its own
\* created_at.
C7_Witness ==
    \E j, k \in 1..Len(inquiry) :
        /\ j # k
        /\ \A f \in InquiryFields : inquiry[j][f] = inquiry[k][f]
        /\ inquiry[j]["_id"] # inquiry[k]["_id"]
        /\ inquiry[j].created_at # inquiry[k].created_at

\* What a submit did, leaving out what the clock decides.
SubmitOutcome(r) ==
    [calls |-> req[r].calls,
     sent |-> IF req[r].sent = None THEN None
              ELSE Some([k \in InquiryFields |-> req[r].sent[1][k]]),
     status_code |-> req[r].resp[1].status_code,
     shape |-> DOMAIN req[r].resp[1].body,
     status |-> req[r].resp[1].body.status]

\* C8: a submit routed from /contact and one routed from /submit-inquiry with
\* the same payload make the same persistence call (create_document with the
\* same content, or none without a database) and answer with the same shape
\* and status marker.
C8_SameUnderBothPaths ==
    \A r1, r2 \in Slots :
        ( /\ IsDone(r1, "submit_inquiry") /\ IsDone(r2, "submit_inquiry")
          /\ req[r1].path = "/contact" /\ req[r2].path = "/submit-inquiry"
          /\ req[r1].args = req[r2].args ) =>
            /\ SubmitOutcome(r1) = SubmitOutcome(r2)
            /\ SubmitOutcome(r1).shape = {"status", "received_at"}
            /\ dbConfigured => SubmitOutcome(r1).calls = <<"create_document">>

\* Both paths were used with the same payload and both stored a record.
C8_Witness ==
    \E r1, r2 \in Slots :
        /\ IsDone(r1, "submit_inquiry") /\ IsDone(r2, "submit_inquiry")
        /\ req[r1].path = "/contact" /\ req[r2].path = "/submit-inquiry"
        /\ req[r1].args = req[r2].args
        /\ req[r1].wrote /\ req[r2].wrote
        /\ Len(inquiry) = 2

\* C9: an exception of get_documents (first or second query) or of find_one
\* answers 500; an exception of a seed upsert does not end the request: the
\* loop goes on through all three samples, the query is run again and, unless
\* that raises, the answer is 200; an exception of the diagnostics probe is
\* reported in a 200 answer.
C9_FaultHandling ==
    \A r \in Slots :
        /\ (req[r].op \in {"list_products", "get_product"}
                /\ req[r].raised \cap {"get_documents", "find_one"} # {}) =>
            /\ req[r].pc = "done"
            /\ req[r].resp = Some(ServerError)
        /\ (req[r].op = "list_products" /\ req[r].raised = {"update_one"}) =>
            /\ req[r].pc \in {"seed", "seed_write", "requery", "done"}
            /\ req[r].pc = "done" =>
                /\ req[r].calls = <<"get_documents", "update_one", "update_one",
                                    "update_one", "get_documents">>
                /\ req[r].resp[1].status_code = 200
        /\ (req[r].op = "test_database" /\ req[r].raised # {}) =>
            /\ req[r].pc = "done"
            /\ req[r].resp[1].status_code = 200
            /\ req[r].resp[1].body.database = "Connected but Error"

\* A list request whose upsert raised went on, inserted a sample and answered
\* 200.
C9_Witness ==
    \E r \in Slots :
        /\ IsDone(r, "list_products")
        /\ req[r].raised = {"update_one"}
        /\ req[r].wrote
        /\ req[r].resp[1].status_code = 200
        /\ Len(req[r].resp[1].body) > 0

IsPrefix(s, t) == Len(s) <= Len(t) /\ SubSeq(t, 1, Len(s)) = s

\* A document without its _id.
Fields(doc) == [k \in DOMAIN doc \ {"_id"} |-> doc[k]]

\* C10: with requests one after the other, every step leaves every stored
\* document where it was and as it was.  "product" changes only by a
\* list_products request appending one sample whose slug no stored document
\* has, and such a request seeds only when its first query matched nothing;
\* "inquiry" changes only by a submit_inquiry request appending one record on
\* its one storage step; get_product, read_root and test_database write
\* nothing.
C10_StoreOnlyGrows ==
    [][ /\ IsPrefix(product, product')
        /\ IsPrefix(inquiry, inquiry')
        /\ product' # product =>
            \E r \in Slots :
                /\ req[r].op = "list_products"
                /\ req[r].pc = "seed_write"
                /\ req'[r].wrote
                /\ Len(product') = Len(product) + 1
                /\ \E n \in 1..Len(_sample_products) :
                    /\ Fields(product'[Len(product')]) = _sample_products[n]
                    /\ WithSlug(product, _sample_products[n].slug) = {}
        /\ inquiry' # inquiry =>
            \E r \in Slots :
                /\ req[r].pc = "idle"
                /\ req'[r].op = "submit_inquiry"
                /\ req'[r].pc = "respond"
                /\ Len(inquiry') = Len(inquiry) + 1
        /\ \A r \in Slots :
            /\ (req'[r].pc \in {"seed", "seed_write"} /\ req[r].pc = "idle") =>
                    \A n \in 1..Len(product) : ~Wanted(product[n], req'[r].args)
            /\ (req'[r].pc \in {"seed", "seed_write"}) =>
                    req[r].pc \in {"idle", "seed", "seed_write"}
            /\ req'[r].op \in {"get_product", "read_root", "test_database"} =>
                    product' = product /\ inquiry' = inquiry ]_vars

\* The curated documents are still first and untouched after a seeding added
\* samples behind them and a submit stored an inquiry.
C10_Witness ==
    /\ product0 = CuratedProducts
    /\ Len(product) > Len(product0)
    /\ SubSeq(product, 1, Len(product0)) = product0
    /\ Len(inquiry) >= 1

====
